---- MODULE Spec2Model ----
(***************************************************************************)
(* Model of luni/src/main/native/org_apache_harmony_luni_platform_        *)
(* OSFileSystem.cpp: the JNI entry points readv, writev and transfer and   *)
(* the iovec builder initIoVec.                                            *)
(*                                                                         *)
(* One native call runs at a time on the calling thread.  A call is cut    *)
(* into the statements of the source; pc names the statement about to run. *)
(* Values wider than a jint (size_t, void*, jlong, off_t) are kept as       *)
(* little-endian sequences of 16-bit limbs of the width the build gives     *)
(* them, so conversions truncate, sign-extend and wrap as the machine does. *)
(***************************************************************************)
EXTENDS Integers, Sequences, FiniteSets, TLC

\* ---------------------------------------------------------------- bounds
\* largest vector count (jint size) a call is made with
MaxCount == 2
\* largest byte count a syscall reports
MaxBytes == 3

\* ------------------------------------------------------------ jint range
MaxInt == 2147483647
MinInt == (-2147483647) - 1

\* ------------------------------------------------- fixed-width integers
LimbBase == 2^16
LimbMax == LimbBase - 1

\* two's complement image of the int x in n limbs (integral conversion of a
\* jint to an n*16-bit type: value-preserving or sign-extending/wrapping)
ToWord(x, n) ==
    [k \in 1..n |->
        IF k = 1 THEN x % LimbBase
        ELSE IF k = 2 THEN (x \div LimbBase) % LimbBase
        ELSE IF x < 0 THEN LimbMax ELSE 0]

\* conversion of a word to a type of n limbs: truncation when narrower,
\* sign extension when wider (the source operand is a signed type)
SignExtend(w, n) ==
    [k \in 1..n |->
        IF k <= Len(w) THEN w[k]
        ELSE IF w[Len(w)] >= LimbBase \div 2 THEN LimbMax ELSE 0]

\* conversion of an unsigned word to a type of n limbs (zero extension)
ZeroExtend(w, n) ==
    [k \in 1..n |-> IF k <= Len(w) THEN w[k] ELSE 0]

\* the word, read as an unsigned number, is below 2^31
Fits(w) ==
    /\ w[2] < LimbBase \div 2
    /\ \A k \in 3..Len(w) : w[k] = 0

\* the number a word below 2^31 stands for
Val(w) == w[1] + LimbBase * w[2]

\* a + b leaves the range of int
Overflows(a, b) ==
    \/ a > 0 /\ b > 0 /\ a > MaxInt - b
    \/ a < 0 /\ b < 0 /\ a < MinInt - b

\* a + b reduced modulo 2^32 into the range of int
WrapAdd(a, b) ==
    IF a > 0 /\ b > 0 /\ a > MaxInt - b
    THEN ((a + MinInt) + b) + MinInt
    ELSE IF a < 0 /\ b < 0 /\ a < MinInt - b
    THEN ((a - MinInt) + b) - MinInt
    ELSE a + b

\* what an overflowing int addition can leave behind besides the wrapped sum
UBInts == {0, -1}

\* jint + jint (line 81): signed overflow is undefined behaviour
SignedAdd(a, b) ==
    IF Overflows(a, b) THEN {WrapAdd(a, b)} \cup UBInts ELSE {a + b}

Min(a, b) == IF a < b THEN a ELSE b

\* -------------------------------------------------------- build variants
\* HAVE_SYS_SENDFILE_H, and the widths of off_t / size_t / void* in limbs
Builds ==
    { [name |-> "linux32", have_sendfile_h |-> TRUE,  off_t |-> 2, size_t |-> 2],
      [name |-> "linux64", have_sendfile_h |-> TRUE,  off_t |-> 4, size_t |-> 4],
      [name |-> "bsd32",   have_sendfile_h |-> FALSE, off_t |-> 4, size_t |-> 2],
      [name |-> "bsd64",   have_sendfile_h |-> FALSE, off_t |-> 4, size_t |-> 4] }

\* ------------------------------------------------------------ input sets
\* (buffer base, offset, length) of one vector entry
IoTriples ==
    { <<4096, 0, 3>>, <<4096, 16, 5>>, <<-4096, 8, 0>>,
      <<MaxInt, 1, 1>>, <<MinInt, -1, 2>>, <<8192, 0, -1>> }

Fds == {3}
SocketFds == {7}
Errnos == {4, 9, 22}

\* jlong offsets: 0, 4096, -1, MaxInt, 2^32, 2^32 + 4096
JOffsets ==
    { ToWord(0, 4), ToWord(4096, 4), ToWord(-1, 4), ToWord(MaxInt, 4),
      <<0, 0, 1, 0>>, <<4096, 0, 1, 0>> }

\* jlong counts: 0, 2, 2^32 + 1
JCounts == { ToWord(0, 4), ToWord(2, 4), <<1, 0, 1, 0>> }

NoArgs ==
    [fd |-> 0, size |-> 0, buffers |-> <<>>, offsets |-> <<>>, lengths |-> <<>>,
     offset |-> <<>>, count |-> <<>>]

NoException == [kind |-> "none", code |-> 0]
NoSyscall ==
    [name |-> "none", out_fd |-> 0, in_fd |-> 0, off |-> <<>>, count |-> <<>>,
     iovcnt |-> 0, result |-> 0, err |-> 0]

VARIABLES
    build,      \* the build variant the library was compiled as
    pc,         \* statement the running call is at; "idle" between calls
    op,         \* entry point running
    args,       \* its arguments
    iovHeap,    \* the iovec array of this call: "unallocated", "live", "freed"
    iov,        \* contents of the iovec array
    pinned,     \* input arrays whose elements are pinned
    i,          \* loop index of initIoVec
    initRet,    \* pointer initIoVec returned: "NULL" or "ptr"
    pending,    \* exception pending in the JNIEnv
    errno,      \* errno of the calling thread
    result,     \* the local result / rc
    socket,     \* the local socket
    off,        \* the local off
    sys,        \* the syscall made by this call and its outcome
    syscalls,   \* syscalls made by this call
    ret         \* value returned to the managed caller

vars == <<build, pc, op, args, iovHeap, iov, pinned, i, initRet, pending,
          errno, result, socket, off, sys, syscalls, ret>>

Init ==
    /\ build \in Builds
    /\ pc = "idle"
    /\ op = "none"
    /\ args = NoArgs
    /\ iovHeap = "unallocated"
    /\ iov = <<>>
    /\ pinned = {}
    /\ i = 0
    /\ initRet = "NULL"
    /\ pending = NoException
    /\ errno = 0
    /\ result = 0
    /\ socket = 0
    /\ off = <<>>
    /\ sys = NoSyscall
    /\ syscalls = 0
    /\ ret = 0

\* ------------------------------------------------------------- helpers
\* ~UniquePtr<iovec[]>: delete[] of the array still owned
UniquePtr_dtor(h) == IF h = "live" THEN "freed" ELSE h

\* ~ScopedIntArrayRO of every view in scope: ReleaseIntArrayElements
ScopedIntArrayRO_dtor(p) == {}

\* exception left pending by a ScopedIntArrayRO whose array cannot be pinned
ArrayAccessFailure == [kind |-> "ArrayAccess", code |-> 0]

jniThrowOutOfMemoryError == [kind |-> "OutOfMemoryError", code |-> 0]

jniThrowIOException(e) == [kind |-> "IOException", code |-> e]

\* argument lists of a vectored call with n entries; the managed caller
\* passes size >= 0 and arrays of at least size elements, of which the first
\* size are kept here
VecArgs(n) ==
    { [fd |-> f, size |-> n,
       buffers |-> [k \in 1..n |-> t[k][1]],
       offsets |-> [k \in 1..n |-> t[k][2]],
       lengths |-> [k \in 1..n |-> t[k][3]],
       offset |-> <<>>, count |-> <<>>] :
      f \in Fds, t \in [1..n -> IoTriples] }

\* --------------------------------------------------- readv / writev entry
CallVectored(name) ==
    /\ pc = "idle"
    /\ \E n \in 0..MaxCount : \E a \in VecArgs(n) : args' = a
    /\ op' = name
    /\ pc' = "iov_new"
    /\ iovHeap' = "unallocated"
    /\ iov' = <<>>
    /\ pinned' = {}
    /\ i' = 0
    /\ initRet' = "NULL"
    /\ pending' = NoException
    /\ result' = 0
    /\ socket' = 0
    /\ off' = <<>>
    /\ sys' = NoSyscall
    /\ syscalls' = 0
    /\ ret' = 0
    /\ UNCHANGED <<build, errno>>

Call_readv == CallVectored("readv")

Call_writev == CallVectored("writev")

\* --------------------------------------------------------------- initIoVec
\* return NULL from initIoVec: every live local is destroyed
initIoVec_fail(exc) ==
    /\ pending' = exc
    /\ iovHeap' = UniquePtr_dtor(iovHeap)
    /\ pinned' = ScopedIntArrayRO_dtor(pinned)
    /\ initRet' = "NULL"
    /\ pc' = "rw_check"

\* lines 63-67: new iovec[size], NULL check
initIoVec_new ==
    /\ pc = "iov_new"
    /\ \/ /\ iovHeap' = "live"
          /\ iov' = [k \in 1..args.size |->
                      [iov_base |-> ToWord(0, build.size_t),
                       iov_len |-> ToWord(0, build.size_t)]]
          /\ pc' = "iov_buffers"
          /\ UNCHANGED <<pending, pinned, initRet>>
       \/ /\ initIoVec_fail(jniThrowOutOfMemoryError)
          /\ UNCHANGED iov
    /\ UNCHANGED <<build, op, args, i, errno, result, socket, off, sys, syscalls, ret>>

\* lines 68-79: pin one input array, NULL check
initIoVec_pin(at, name, next) ==
    /\ pc = at
    /\ \/ /\ pinned' = pinned \cup {name}
          /\ pc' = next
          /\ UNCHANGED <<pending, iovHeap, initRet>>
       \/ initIoVec_fail(ArrayAccessFailure)
    /\ UNCHANGED <<build, op, args, iov, i, errno, result, socket, off, sys, syscalls, ret>>

initIoVec_buffers == initIoVec_pin("iov_buffers", "buffers", "iov_offsets")

initIoVec_offsets == initIoVec_pin("iov_offsets", "offsets", "iov_lengths")

initIoVec_lengths == initIoVec_pin("iov_lengths", "lengths", "iov_loop")

\* the offset left out of the address
initIoVec_sum_base(b, o) == {b}

\* line 81: the addresses buffers[i] + offsets[i] can produce
initIoVec_sum(b, o) == SignedAdd(b, o)

\* line 81: reinterpret_cast<void*>(int)
initIoVec_base(s, n) == ToWord(s, n)

\* line 82: iov_len = lengths[i] (jint to size_t)
initIoVec_len(l, n) == ToWord(l, n)

\* lines 80-83: one iteration of the loop, or its exit
initIoVec_loop ==
    /\ pc = "iov_loop"
    /\ IF i < args.size
       THEN /\ \E s \in initIoVec_sum(args.buffers[i + 1], args.offsets[i + 1]) :
                 iov' = [iov EXCEPT ![i + 1] =
                            [iov_base |-> initIoVec_base(s, build.size_t),
                             iov_len |-> initIoVec_len(args.lengths[i + 1], build.size_t)]]
            /\ i' = i + 1
            /\ pc' = "iov_loop"
       ELSE /\ pc' = "iov_return"
            /\ UNCHANGED <<iov, i>>
    /\ UNCHANGED <<build, op, args, iovHeap, pinned, initRet, pending, errno,
                   result, socket, off, sys, syscalls, ret>>

\* line 84: return vectors.release(); the three views are released
initIoVec_return ==
    /\ pc = "iov_return"
    /\ initRet' = "ptr"
    /\ pinned' = ScopedIntArrayRO_dtor(pinned)
    /\ pc' = "rw_check"
    /\ UNCHANGED <<build, op, args, iovHeap, iov, i, pending, errno, result,
                   socket, off, sys, syscalls, ret>>

\* ------------------------------------------------- the vectored syscalls
RECURSIVE SumLen(_)
\* bytes the vectors ask for, when every length is below 2^31
SumLen(v) ==
    IF v = <<>> THEN 0
    ELSE Min(MaxBytes, Min(MaxBytes, Val(Head(v).iov_len)) + SumLen(Tail(v)))

\* results readv(2) / writev(2) can report for the vectors v: -1, or a byte
\* count no larger than requested; a length above SSIZE_MAX is EINVAL
VecResults(v) ==
    IF \E k \in 1..Len(v) : ~Fits(v[k].iov_len)
    THEN {-1}
    ELSE {-1} \cup (0..Min(MaxBytes, SumLen(v)))

\* the builder's result used unchecked
rw_builder_failed_unchecked(p) == FALSE

\* lines 90 and 106: vectors.get() == NULL
rw_builder_failed(p) == p = "NULL"

\* lines 89-92 / 105-108: the builder's result is checked
CheckVectors(name, next) ==
    /\ pc = "rw_check"
    /\ op = name
    /\ IF rw_builder_failed(initRet)
       THEN /\ ret' = -1
            /\ pc' = "done"
       ELSE /\ pc' = next
            /\ UNCHANGED ret
    /\ UNCHANGED <<build, op, args, iovHeap, iov, pinned, i, initRet, pending,
                   errno, result, socket, off, sys, syscalls>>

readv_check == CheckVectors("readv", "readv_call")

writev_check == CheckVectors("writev", "writev_call")

\* lines 93 and 109: the one gather-read / scatter-write syscall
VecSyscall(at, name) ==
    /\ pc = at
    /\ \E r \in VecResults(iov) : \E e \in Errnos :
          /\ result' = r
          /\ errno' = IF r = -1 THEN e ELSE errno
          /\ sys' = [name |-> name, out_fd |-> 0, in_fd |-> args.fd, off |-> <<>>,
                     count |-> <<>>, iovcnt |-> args.size, result |-> r,
                     err |-> IF r = -1 THEN e ELSE errno]
    /\ syscalls' = syscalls + 1
    /\ UNCHANGED <<build, op, args, iovHeap, iov, pinned, i, initRet, pending,
                   socket, off, ret>>

\* readv retrying a failed syscall
readv_after_call_retry(r) == IF r = -1 THEN "readv_call" ELSE "readv_result"

\* the statement readv runs after line 93, whatever the result r
readv_after_call(r) == "readv_result"

\* the statement writev runs after line 109, whatever the result r
writev_after_call(r) == "writev_result"

readv_call ==
    /\ VecSyscall("readv_call", "readv")
    /\ pc' = readv_after_call(result')

writev_call ==
    /\ VecSyscall("writev_call", "writev")
    /\ pc' = writev_after_call(result')

\* readv without the end-of-stream mapping
readv_ret_noeof(r) == r

\* lines 94-100: value readv returns for the syscall result r
readv_ret(r) == IF r = 0 THEN -1 ELSE r

\* lines 94-99: readv raises for the syscall result r
readv_throws(r) == r # 0 /\ r = -1

\* a raw pointer freed only on the path past the end-of-stream return
readv_exit_leak(r, h) == IF r = 0 THEN h ELSE UniquePtr_dtor(h)

\* lines 89-101: the iovec array when readv's scope is left
readv_exit(r, h) == UniquePtr_dtor(h)

readv_result ==
    /\ pc = "readv_result"
    /\ pending' = IF readv_throws(result) THEN jniThrowIOException(errno) ELSE pending
    /\ ret' = readv_ret(result)
    /\ iovHeap' = readv_exit(result, iovHeap)
    /\ pc' = "done"
    /\ UNCHANGED <<build, op, args, iov, pinned, i, initRet, errno, result,
                   socket, off, sys, syscalls>>

\* writev with readv's end-of-stream mapping
writev_ret_eof(r) == IF r = 0 THEN -1 ELSE r

\* line 113: value writev returns for the syscall result r
writev_ret(r) == r

\* line 110: writev raises for the syscall result r
writev_throws(r) == r = -1

\* the syscall result passed where errno belongs
writev_code_result(e) == -1

\* line 111: the code writev's exception carries
writev_code(e) == e

writev_result ==
    /\ pc = "writev_result"
    /\ pending' = IF writev_throws(result)
                  THEN jniThrowIOException(writev_code(errno)) ELSE pending
    /\ ret' = writev_ret(result)
    /\ iovHeap' = UniquePtr_dtor(iovHeap)
    /\ pc' = "done"
    /\ UNCHANGED <<build, op, args, iov, pinned, i, initRet, errno, result,
                   socket, off, sys, syscalls>>

\* --------------------------------------------------------------- transfer
Call_transfer ==
    /\ pc = "idle"
    /\ \E f \in Fds : \E o \in JOffsets : \E c \in JCounts :
          args' = [NoArgs EXCEPT !.fd = f, !.offset = o, !.count = c]
    /\ op' = "transfer"
    /\ pc' = "tr_resolve"
    /\ iovHeap' = "unallocated"
    /\ iov' = <<>>
    /\ pinned' = {}
    /\ i' = 0
    /\ initRet' = "NULL"
    /\ pending' = NoException
    /\ result' = 0
    /\ socket' = 0
    /\ off' = <<>>
    /\ sys' = NoSyscall
    /\ syscalls' = 0
    /\ ret' = 0
    /\ UNCHANGED <<build, errno>>

\* the unresolved descriptor compared against 0
transfer_unresolved_zero(s) == s = 0

\* line 120: socket == -1
transfer_unresolved(s) == s = -1

\* lines 119-122: resolve the destination descriptor
transfer_resolve ==
    /\ pc = "tr_resolve"
    /\ \E s \in {-1} \cup SocketFds :
          /\ socket' = s
          /\ IF transfer_unresolved(s)
             THEN /\ ret' = -1
                  /\ pc' = "done"
             ELSE /\ pc' = "tr_off"
                  /\ UNCHANGED ret
    /\ UNCHANGED <<build, op, args, iovHeap, iov, pinned, i, initRet, pending,
                   errno, result, off, sys, syscalls>>

\* line 127: off_t off = offset (jlong to off_t of n limbs)
transfer_off_t(o, n) == SignExtend(o, n)

transfer_off ==
    /\ pc = "tr_off"
    /\ off' = transfer_off_t(args.offset, build.off_t)
    /\ pc' = "tr_sendfile"
    /\ UNCHANGED <<build, op, args, iovHeap, iov, pinned, i, initRet, pending,
                   errno, result, socket, sys, syscalls, ret>>

\* source and destination exchanged
transfer_fds_swapped(s, f) == [out_fd |-> f, in_fd |-> s]

\* line 129: the descriptors transfer hands to sendfile(out_fd, in_fd, ...)
transfer_fds(s, f) == [out_fd |-> s, in_fd |-> f]

\* line 52: the descriptors the adapter hands on as (file, socket)
adapter_fds(out_fd, in_fd) == [file |-> in_fd, sock |-> out_fd]

\* byte counts the kernel can report for a request of c bytes
SentBytes(c) == 0..(IF Fits(c) THEN Min(MaxBytes, Val(c)) ELSE MaxBytes)

\* lines 50-57 / <sys/sendfile.h>: outcomes of sendfile(out_fd, in_fd, &off, count)
\* as (descriptors, offset and count handed to the kernel, rc, errno is set)
sendfile(b, fds, o, c) ==
    IF b.have_sendfile_h
    THEN { [file |-> fds.in_fd, sock |-> fds.out_fd, off |-> o, count |-> c,
            rc |-> r] : r \in {-1} \cup SentBytes(c) }
    ELSE LET len == ZeroExtend(c, b.off_t)
             k == adapter_fds(fds.out_fd, fds.in_fd)
         IN { [file |-> k.file, sock |-> k.sock, off |-> o, count |-> len,
               rc |-> IF x[1] < 0 THEN -1 ELSE x[2]] :
              x \in {-1, 0} \X SentBytes(len) }

\* line 129: the one transfer syscall
transfer_sendfile ==
    /\ pc = "tr_sendfile"
    /\ \E out \in sendfile(build, transfer_fds(socket, args.fd), off,
                           SignExtend(args.count, build.size_t)) :
       \E e \in Errnos :
          /\ result' = out.rc
          /\ errno' = IF out.rc = -1 THEN e ELSE errno
          /\ sys' = [name |-> "sendfile", out_fd |-> out.sock, in_fd |-> out.file,
                     off |-> out.off, count |-> out.count, iovcnt |-> 0,
                     result |-> out.rc, err |-> IF out.rc = -1 THEN e ELSE errno]
    /\ syscalls' = syscalls + 1
    /\ pc' = "tr_result"
    /\ UNCHANGED <<build, op, args, iovHeap, iov, pinned, i, initRet, pending,
                   socket, off, ret>>

\* transfer reporting an empty transfer as the sentinel
transfer_ret_sentinel(r) == IF r = 0 THEN -1 ELSE r

\* line 133: value transfer returns for the syscall result r
transfer_ret(r) == r

\* line 130: transfer raises for the syscall result r
transfer_throws(r) == r = -1

\* lines 130-133
transfer_result ==
    /\ pc = "tr_result"
    /\ pending' = IF transfer_throws(result) THEN jniThrowIOException(errno) ELSE pending
    /\ ret' = transfer_ret(result)
    /\ pc' = "done"
    /\ UNCHANGED <<build, op, args, iovHeap, iov, pinned, i, initRet, errno,
                   result, socket, off, sys, syscalls>>

\* the native method has returned; the managed caller takes ret and pending
Return ==
    /\ pc = "done"
    /\ pc' = "idle"
    /\ UNCHANGED <<build, op, args, iovHeap, iov, pinned, i, initRet, pending,
                   errno, result, socket, off, sys, syscalls, ret>>

Next ==
    \/ Call_readv
    \/ Call_writev
    \/ initIoVec_new
    \/ initIoVec_buffers
    \/ initIoVec_offsets
    \/ initIoVec_lengths
    \/ initIoVec_loop
    \/ initIoVec_return
    \/ readv_check
    \/ writev_check
    \/ readv_call
    \/ writev_call
    \/ readv_result
    \/ writev_result
    \/ Call_transfer
    \/ transfer_resolve
    \/ transfer_off
    \/ transfer_sendfile
    \/ transfer_result
    \/ Return

Spec == Init /\ [][Next]_vars

TypeOK ==
    /\ build \in Builds
    /\ op \in {"none", "readv", "writev", "transfer"}
    /\ iovHeap \in {"unallocated", "live", "freed"}
    /\ pinned \subseteq {"buffers", "offsets", "lengths"}
    /\ initRet \in {"NULL", "ptr"}
    /\ errno \in {0} \cup Errnos
    /\ result \in (-1)..(MaxBytes + 1)
    /\ syscalls \in 0..1

\* ------------------------------------------------------------ properties
Vectored == {"readv", "writev"}

BuilderPcs ==
    {"iov_new", "iov_buffers", "iov_offsets", "iov_lengths", "iov_loop", "iov_return"}

\* initIoVec has returned an array to the running vectored call
Built == op \in Vectored /\ initRet = "ptr" /\ pc \notin BuilderPcs \cup {"idle"}

\* initIoVec has returned NULL to the running vectored call
BuildFailed == op \in Vectored /\ initRet = "NULL" /\ pc \notin BuilderPcs \cup {"idle"}

\* one's complement of a word
Compl(w) == [k \in 1..Len(w) |-> LimbMax - w[k]]

\* the word w, read as an unsigned number, is the natural number x
UnsignedIs(w, x) == x >= 0 /\ Fits(w) /\ Val(w) = x

\* the word w, read as a signed number, is the integer x
SignedIs(w, x) ==
    IF x >= 0 THEN Fits(w) /\ Val(w) = x
    ELSE Fits(Compl(w)) /\ Val(Compl(w)) = -(x + 1)

\* the jlong w lies in the range of jint
InJintRange(w) ==
    \/ w[2] < LimbBase \div 2 /\ w[3] = 0 /\ w[4] = 0
    \/ w[2] >= LimbBase \div 2 /\ w[3] = LimbMax /\ w[4] = LimbMax

\* C1: a readv whose vectors were built and whose syscall reports 0 bytes
\* returns -1 with nothing raised, and readv never returns 0.
C1_ReadvEndOfStream ==
    (op = "readv" /\ pc = "done") =>
        /\ ret # 0
        /\ (initRet = "ptr" /\ sys.name = "readv" /\ sys.result = 0) =>
               (ret = -1 /\ pending = NoException)

C1_Witness ==
    /\ op = "readv" /\ pc = "done" /\ args.size > 0
    /\ syscalls = 1 /\ sys.result = 0 /\ ret = -1

\* C2: in readv, writev and transfer a negative syscall result raises an
\* IOException carrying the errno the syscall left, and an IOException is
\* pending only after a negative syscall result.
C2_FailureCarriesErrno ==
    /\ (pc = "done" /\ syscalls = 1 /\ sys.result < 0) =>
           pending = [kind |-> "IOException", code |-> sys.err]
    /\ pending.kind = "IOException" =>
           (syscalls = 1 /\ sys.result < 0 /\ pending.code = sys.err)

C2_Witness ==
    /\ pc = "done" /\ op = "writev" /\ sys.result = -1 /\ sys.err = 9
    /\ pending = [kind |-> "IOException", code |-> 9]

\* C3: a transfer whose socket resolves to -1 returns -1, raises nothing and
\* makes no syscall.
C3_UnresolvedSocket ==
    (op = "transfer" /\ socket = -1 /\ pc \in {"done", "tr_off", "tr_sendfile", "tr_result"}) =>
        /\ pc = "done"
        /\ ret = -1
        /\ pending = NoException
        /\ syscalls = 0
        /\ sys = NoSyscall

C3_Witness == op = "transfer" /\ pc = "done" /\ socket = -1 /\ ret = -1

\* C4 as stated: every writev with count = 0 returns 0 and raises nothing.
C4_ZeroCountAlwaysZero ==
    (op = "writev" /\ pc = "done" /\ args.size = 0) =>
        (ret = 0 /\ pending = NoException)

\* C4 amended: a writev with count = 0 returns 0 and raises nothing when the
\* vectors were built and the syscall did not fail; when the builder or the
\* syscall fails it returns -1 with the failure pending.
C4_ZeroCountWrite ==
    (op = "writev" /\ pc = "done" /\ args.size = 0) =>
        IF initRet = "ptr" /\ sys.result # -1
        THEN ret = 0 /\ pending = NoException /\ syscalls = 1
        ELSE ret = -1 /\ pending # NoException

C4_Witness ==
    /\ op = "writev" /\ pc = "done" /\ args.size = 0
    /\ syscalls = 1 /\ sys.result = 0 /\ ret = 0

\* C5: a non-negative syscall result is returned unchanged by writev and
\* transfer, a positive one by readv, and nothing is raised.
C5_ResultUnchanged ==
    (pc = "done" /\ syscalls = 1) =>
        /\ (op \in {"writev", "transfer"} /\ sys.result >= 0) =>
               (ret = sys.result /\ pending = NoException)
        /\ (op = "readv" /\ sys.result > 0) =>
               (ret = sys.result /\ pending = NoException)

C5_Witness ==
    /\ pc = "done" /\ op = "transfer" /\ syscalls = 1
    /\ args.offset = ToWord(4096, 4) /\ args.count = ToWord(2, 4)
    /\ sys.result = 0 /\ ret = 0

\* C6: when readv or writev returns, and when initIoVec returns NULL, the
\* iovec array is not allocated any more and no input array is pinned.
C6_NothingHeld ==
    /\ (op \in Vectored /\ pc = "done") => (iovHeap # "live" /\ pinned = {})
    /\ BuildFailed => (iovHeap # "live" /\ pinned = {})

C6_Witness ==
    /\ op = "readv" /\ pc = "done" /\ sys.result = 0 /\ args.size > 0
    /\ iovHeap = "freed" /\ pinned = {}

\* C7: when initIoVec fails no syscall is made and a failure is pending:
\* OutOfMemoryError when the allocation failed, the array-access failure when
\* one of the three arrays could not be pinned; the call returns -1.
C7_BuilderFailure ==
    BuildFailed =>
        /\ syscalls = 0
        /\ sys = NoSyscall
        /\ pc \in {"rw_check", "done"}
        /\ iovHeap = "unallocated" => pending = jniThrowOutOfMemoryError
        /\ iovHeap # "unallocated" => pending = ArrayAccessFailure
        /\ pc = "done" => ret = -1

C7_Witness ==
    /\ op = "readv" /\ pc = "done" /\ initRet = "NULL"
    /\ iovHeap = "freed" /\ pending = ArrayAccessFailure /\ syscalls = 0

\* C8: a call makes its syscall at most once; a partial or failed syscall is
\* followed by the return, not by another syscall.
C8_SingleSyscall == syscalls <= 1

C8_Witness ==
    /\ op = "writev" /\ pc = "done" /\ syscalls = 1
    /\ args.size = 1 /\ args.lengths[1] = 3 /\ sys.result = 1 /\ ret = 1

\* C9 as stated: for all jint values the builder yields size pairs with
\* pointer = base + offset and length = length.
C9_PairsForAllInts ==
    Built =>
        /\ Len(iov) = args.size
        /\ \A k \in 1..args.size :
              /\ ~Overflows(args.buffers[k], args.offsets[k])
              /\ SignedIs(iov[k].iov_base, args.buffers[k] + args.offsets[k])
              /\ UnsignedIs(iov[k].iov_len, args.lengths[k])

\* C9 amended: the builder yields size pairs; the pointer of pair k is
\* base + offset whenever that sum stays in the range of int, and the length
\* of pair k is length k whenever that is not negative; a negative length
\* becomes a size above SSIZE_MAX.
C9_PairsInRange ==
    Built =>
        /\ Len(iov) = args.size
        /\ \A k \in 1..args.size :
              /\ ~Overflows(args.buffers[k], args.offsets[k]) =>
                     SignedIs(iov[k].iov_base, args.buffers[k] + args.offsets[k])
              /\ args.lengths[k] >= 0 => UnsignedIs(iov[k].iov_len, args.lengths[k])
              /\ args.lengths[k] < 0 => ~Fits(iov[k].iov_len)

C9_Witness ==
    /\ Built /\ pc = "rw_check" /\ args.size = 2
    /\ args.buffers = <<4096, -4096>> /\ args.offsets = <<16, 8>>
    /\ args.lengths = <<5, 0>>

\* C10: the transfer syscall gets the resolved socket as destination, fd as
\* source, and, for an offset in the range of jint, the caller's offset.
C10_TransferArguments ==
    (op = "transfer" /\ sys.name = "sendfile") =>
        /\ sys.out_fd = socket
        /\ sys.in_fd = args.fd
        /\ socket \in SocketFds
        /\ InJintRange(args.offset) => SignExtend(sys.off, 4) = args.offset

C10_Witness ==
    /\ op = "transfer" /\ sys.name = "sendfile" /\ build.off_t = 2
    /\ args.offset = ToWord(-1, 4) /\ sys.off = <<LimbMax, LimbMax>>
    /\ sys.out_fd = 7 /\ sys.in_fd = 3

====
